---- MODULE Spec2Model ----
(***************************************************************************)
(* The Arena battle client of Study-Battle                                 *)
(* (src/frontend/src/pages/Workspace.jsx, function Arena) as a state       *)
(* machine: the React state of the component, its two refs, the WebSocket  *)
(* objects it has created, its timers, the inbound protocol messages and   *)
(* the user commands.                                                      *)
(*                                                                         *)
(* JavaScript values: a string-valued state that is null holds the string  *)
(* "null" (undefined: "undefined"); an object-valued state that is null    *)
(* holds the empty function << >>; an optional field of a payload that is  *)
(* omitted is absent from the record's DOMAIN.  A string whose characters  *)
(* the code looks at (an mcq option, for charAt(0)) is a sequence of       *)
(* one-character strings.                                                  *)
(***************************************************************************)
EXTENDS Integers, Sequences, FiniteSets, Bags, TLC

VARIABLES
    \* ---- React state of Arena (useState, lines 31-46)
    connected, matchReady, players, currentQuestion, timeLeft, answer,
    selectedOption, submitting, roundResult, matchEnd, error, cooldown,
    waitingForOpponent, roundHistory, skipStatus, wsError,
    \* ---- refs (useRef, lines 48-49)
    wsRef, cooldownTimerRef,
    \* ---- the environment the component lives in
    mounted,        \* FALSE once the component is unmounted
    sockets,        \* the WebSocket objects created so far: a sequence of ready states
    intervals,      \* live setInterval timers: id -> seconds until the next callback
    noticeTimers,   \* pending setTimeout callbacks: a bag of seconds until each fires
    \* ---- observation (history) variables, written but never read by the program
    lastOp,         \* the handler or command that ran last
    out,            \* the frames the last step put on the wire
    lastData,       \* the payload (message.data) the last step handled, if any
    roundStarts,    \* number of round_start messages processed
    pendingSubmit,  \* a submit_answer frame went out and no answer_feedback or
                    \* round_result has been processed since
    seen            \* the cooldown since the last incorrect answer_feedback: the
                    \* values it took, the seconds between them, the seconds since
                    \* the last of them, and whether the feedback changed the value;
                    \* and whether a submit_answer frame went out since the last
                    \* answer_feedback or round_start; and the number of
                    \* skip_round frames sent since the last round_start; and the
                    \* largest duration an incorrect answer_feedback has specified
                    \* so far (2 for one without a duration, 0 before the first)

reactVars == <<connected, matchReady, players, currentQuestion, timeLeft, answer,
               selectedOption, submitting, roundResult, matchEnd, error, cooldown,
               waitingForOpponent, roundHistory, skipStatus, wsError>>
timerVars == <<cooldownTimerRef, intervals>>
ghostVars == <<lastOp, out, lastData, roundStarts, pendingSubmit, seen>>
vars == <<reactVars, wsRef, timerVars, mounted, sockets, noticeTimers, ghostVars>>

-----------------------------------------------------------------------------
(* Bounds of the model. *)
MaxSockets == 2        \* WebSocket objects created in one session (1 + retries)
MaxRounds == 2         \* round_start messages processed in one session
MaxNotices == 1        \* setTimeout callbacks pending at one time
MaxReconnects == 2     \* clicks on Retry where reconnecting itself is examined
MaxSkips == 2          \* skip_round frames counted per round (more count as this many)

(* Program constants. *)
DefaultCooldown == 2   \* data.cooldown_seconds || 2
NoticeSeconds == 3     \* setTimeout(..., 3000)
IntervalSeconds == 1   \* setInterval(..., 1000)

(* JavaScript null / undefined / truthiness. *)
null == "null"
undefined == "undefined"
none == << >>
Has(obj, f) == f \in DOMAIN obj
\* a test that lets every value pass
TruthyStrAlways(v) == TRUE
\* !v is false, for a string-valued v
TruthyStr(v) == v \notin {null, undefined, ""}

(* The local player (line 29) and the opponent. *)
playerName == "ann"
opponentName == "bob"

-----------------------------------------------------------------------------
(* Inbound payloads the server may send: the `data` of each message type   *)
(* (spec.md section 6), drawn from small sets.                             *)

Cite1 == [file_name |-> "notes.pdf", page |-> 3]
Cite2 == [file_name |-> "book.pdf", url |-> "http://b"]

\* an mcq question with options and a citation; a short question with neither
QuestionMcq == [question_id |-> "q1", question_text |-> "text1", question_type |-> "mcq",
                options |-> << <<"A", ")", "x">>, << >> >>, time_limit |-> 30,
                citation |-> <<Cite1>>]
QuestionShort == [question_id |-> "q2", question_text |-> "text2",
                  question_type |-> "short", time_limit |-> 20]
RoundStarts == {QuestionMcq, QuestionShort}

RosterFull == (playerName :> [hp |-> 100]) @@ (opponentName :> [hp |-> 100])
RosterHit == (playerName :> [hp |-> 100, name |-> playerName])
             @@ (opponentName :> [hp |-> 80, name |-> opponentName])
MatchReadys == {[players |-> RosterFull]}

RoundUpdates == {[seconds_left |-> 25], [seconds_left |-> 10]}

SkipUpdates == {[skipped_by |-> <<playerName>>], [skipped_by |-> <<opponentName>>],
                [skipped_by |-> <<opponentName, playerName>>],
                [skipped_by |-> << >>], [other |-> 0]}

\* a result with a citation list and a roster; a result with neither
ResultFull == [winner_player |-> opponentName, damage |-> 20, solution |-> "sol1",
               correct_answer |-> "ans1", citation |-> <<Cite2>>, players |-> RosterHit]
ResultBare == [skipped |-> TRUE, solution |-> "sol2", correct_answer |-> "ans2"]
RoundResults == {ResultFull, ResultBare}

CooldownValues == {-1, 0, 1, 3}
AnswerFeedbacks ==
    {[correct |-> TRUE], [correct |-> FALSE]}
    \cup {[correct |-> FALSE, cooldown_seconds |-> n, explanation |-> "wrong"] :
              n \in CooldownValues}

MatchEnds == {[winner |-> playerName, final_hp |-> (playerName :> 40)],
              [winner |-> opponentName]}

ErrorMessages == {[message |-> "server error"]}

-----------------------------------------------------------------------------
(* Timers. *)

Max(a, b) == IF a >= b THEN a ELSE b

\* clearInterval(ref), guarded by `if (ref)`: 0 is the null ref
ClearInterval(iv, ref) == [i \in DOMAIN iv \ {ref} |-> iv[i]]

\* an effect that starts no interval
CooldownEffectNoInterval(c) ==
    IF c = cooldown
    THEN UNCHANGED timerVars
    ELSE /\ intervals' = ClearInterval(intervals, cooldownTimerRef)
         /\ cooldownTimerRef' = cooldownTimerRef

\* an effect without its cleanup: a new interval is started next to the old one
CooldownEffectNoCleanup(c) ==
    IF c = cooldown
    THEN UNCHANGED timerVars
    ELSE IF c > 0
         THEN LET id == CHOOSE i \in 1..(Cardinality(DOMAIN intervals) + 1) :
                            i \notin DOMAIN intervals
              IN  /\ intervals' = intervals @@ (id :> IntervalSeconds)
                  /\ cooldownTimerRef' = id
         ELSE /\ intervals' = ClearInterval(intervals, cooldownTimerRef)
              /\ cooldownTimerRef' = cooldownTimerRef

\* useEffect(..., [cooldown]) (lines 103-118), run by the render that follows a
\* state update setting cooldown to c: nothing when the value is unchanged;
\* otherwise the cleanup of the previous run, then the effect body.
CooldownEffect(c) ==
    IF c = cooldown
    THEN UNCHANGED timerVars
    ELSE LET cleaned == ClearInterval(intervals, cooldownTimerRef)
         IN  IF c > 0
             THEN LET id == CHOOSE i \in 1..(Cardinality(DOMAIN cleaned) + 1) :
                                i \notin DOMAIN cleaned
                  IN  /\ intervals' = cleaned @@ (id :> IntervalSeconds)
                      /\ cooldownTimerRef' = id
             ELSE /\ intervals' = ClearInterval(cleaned, cooldownTimerRef)
                  /\ cooldownTimerRef' = cooldownTimerRef

\* a state update on an unmounted component is dropped by React
React(update) == IF mounted THEN update ELSE UNCHANGED <<reactVars, timerVars>>

-----------------------------------------------------------------------------
(* handleMessage (lines 120-206): one operator per case of the switch,     *)
(* giving the React state after the batch of setState calls and the        *)
(* effects of the render that follows.                                     *)

OnConnected(data) ==
    UNCHANGED <<reactVars, timerVars>>

OnMatchReady(data) ==
    /\ matchReady' = TRUE
    /\ waitingForOpponent' = FALSE
    /\ players' = data.players
    /\ UNCHANGED <<connected, currentQuestion, timeLeft, answer, selectedOption,
                   submitting, roundResult, matchEnd, error, cooldown, roundHistory,
                   skipStatus, wsError, timerVars>>

\* the record round_start stores for the history (lines 143-149)
HistoryEntry(data) ==
    [f \in {"question_id", "question_text", "question_type", "citation"}
           \cup ({"options"} \cap DOMAIN data) |->
        IF f = "citation"
        THEN (IF Has(data, "citation") THEN data.citation ELSE << >>)
        ELSE data[f]]

\* a round_start that also ends the cooldown
OnRoundStartEndingCooldown(data) ==
    /\ currentQuestion' = data
    /\ timeLeft' = data.time_limit
    /\ answer' = ""
    /\ selectedOption' = null
    /\ roundResult' = none
    /\ submitting' = FALSE
    /\ skipStatus' = {}
    /\ roundHistory' = Append(roundHistory, HistoryEntry(data))
    /\ cooldown' = 0
    /\ CooldownEffect(0)
    /\ UNCHANGED <<connected, matchReady, players, matchEnd, error,
                   waitingForOpponent, wsError>>

\* a round_start that leaves the submitting flag as it is
OnRoundStartKeepingSubmitting(data) ==
    /\ currentQuestion' = data
    /\ timeLeft' = data.time_limit
    /\ answer' = ""
    /\ selectedOption' = null
    /\ roundResult' = none
    /\ skipStatus' = {}
    /\ roundHistory' = Append(roundHistory, HistoryEntry(data))
    /\ UNCHANGED <<connected, matchReady, players, matchEnd, error, cooldown,
                   waitingForOpponent, wsError, timerVars, submitting>>

OnRoundStart(data) ==
    /\ currentQuestion' = data
    /\ timeLeft' = data.time_limit
    /\ answer' = ""
    /\ selectedOption' = null
    /\ roundResult' = none
    /\ submitting' = FALSE
    /\ skipStatus' = {}
    /\ roundHistory' = Append(roundHistory, HistoryEntry(data))
    /\ UNCHANGED <<connected, matchReady, players, matchEnd, error, cooldown,
                   waitingForOpponent, wsError, timerVars>>

\* a round_update that adds to the displayed time
OnRoundUpdateSummed(data) ==
    /\ timeLeft' = timeLeft + data.seconds_left
    /\ UNCHANGED <<connected, matchReady, players, currentQuestion, answer,
                   selectedOption, submitting, roundResult, matchEnd, error, cooldown,
                   waitingForOpponent, roundHistory, skipStatus, wsError, timerVars>>

OnRoundUpdate(data) ==
    /\ timeLeft' = data.seconds_left
    /\ UNCHANGED <<connected, matchReady, players, currentQuestion, answer,
                   selectedOption, submitting, roundResult, matchEnd, error, cooldown,
                   waitingForOpponent, roundHistory, skipStatus, wsError, timerVars>>

\* a vote set built on top of the current one
SkippedSetMerged(data) ==
    skipStatus \cup (IF Has(data, "skipped_by")
                     THEN {data.skipped_by[i] : i \in 1..Len(data.skipped_by)}
                     ELSE {})

\* (data.skipped_by || []).forEach(name => { skipped[name] = true })
SkippedSet(data) ==
    IF Has(data, "skipped_by")
    THEN {data.skipped_by[i] : i \in 1..Len(data.skipped_by)}
    ELSE {}

OnSkipUpdate(data) ==
    /\ skipStatus' = SkippedSet(data)
    /\ UNCHANGED <<connected, matchReady, players, currentQuestion, timeLeft, answer,
                   selectedOption, submitting, roundResult, matchEnd, error, cooldown,
                   waitingForOpponent, roundHistory, wsError, timerVars>>

\* a rewrite that takes the citations from the result alone
AmendEntryResultCitations(entry, data) ==
    [f \in DOMAIN entry \cup {"solution", "correct_answer", "citation"} |->
        CASE f = "solution" -> data.solution
          [] f = "correct_answer" -> data.correct_answer
          [] f = "citation" -> (IF Has(data, "citation") THEN data.citation ELSE << >>)
          [] OTHER -> entry[f]]

\* a rewrite that stores the result's two texts under each other's key
AmendEntrySwapped(entry, data) ==
    [f \in DOMAIN entry \cup {"solution", "correct_answer", "citation"} |->
        CASE f = "solution" -> data.correct_answer
          [] f = "correct_answer" -> data.solution
          [] f = "citation" -> (IF Has(data, "citation") THEN data.citation
                                ELSE entry.citation)
          [] OTHER -> entry[f]]

\* the last history entry as round_result rewrites it (lines 171-176)
AmendEntry(entry, data) ==
    [f \in DOMAIN entry \cup {"solution", "correct_answer", "citation"} |->
        CASE f = "solution" -> data.solution
          [] f = "correct_answer" -> data.correct_answer
          [] f = "citation" -> (IF Has(data, "citation") THEN data.citation
                                ELSE entry.citation)
          [] OTHER -> entry[f]]

\* an updater without the empty-history guard: it records the result anyway
AmendHistoryFabricating(prev, data) ==
    IF Len(prev) = 0
    THEN <<[solution |-> data.solution, correct_answer |-> data.correct_answer]>>
    ELSE [prev EXCEPT ![Len(prev)] = AmendEntry(prev[Len(prev)], data)]

\* an updater that rewrites the first entry in place of the last
AmendHistoryFirst(prev, data) ==
    IF Len(prev) = 0
    THEN prev
    ELSE [prev EXCEPT ![1] = AmendEntry(prev[1], data)]

\* the updater passed to setRoundHistory by round_result (lines 168-178)
AmendHistory(prev, data) ==
    IF Len(prev) = 0
    THEN prev
    ELSE [prev EXCEPT ![Len(prev)] = AmendEntry(prev[Len(prev)], data)]

\* a round_result that leaves the question active
OnRoundResultKeepingQuestion(data) ==
    /\ roundResult' = data
    /\ players' = IF Has(data, "players") THEN data.players ELSE players
    /\ roundHistory' = AmendHistory(roundHistory, data)
    /\ UNCHANGED <<connected, matchReady, timeLeft, answer, selectedOption, submitting,
                   matchEnd, error, cooldown, waitingForOpponent, skipStatus, wsError,
                   timerVars, currentQuestion>>

\* a round_result that empties the roster when it carries none
OnRoundResultDroppingRoster(data) ==
    /\ roundResult' = data
    /\ currentQuestion' = none
    /\ players' = IF Has(data, "players") THEN data.players ELSE << >>
    /\ roundHistory' = AmendHistory(roundHistory, data)
    /\ UNCHANGED <<connected, matchReady, timeLeft, answer, selectedOption, submitting,
                   matchEnd, error, cooldown, waitingForOpponent, skipStatus, wsError,
                   timerVars>>

OnRoundResult(data) ==
    /\ roundResult' = data
    /\ currentQuestion' = none
    /\ players' = IF Has(data, "players") THEN data.players ELSE players
    /\ roundHistory' = AmendHistory(roundHistory, data)
    /\ UNCHANGED <<connected, matchReady, timeLeft, answer, selectedOption, submitting,
                   matchEnd, error, cooldown, waitingForOpponent, skipStatus, wsError,
                   timerVars>>

\* data.cooldown_seconds || 2
FeedbackCooldown(data) ==
    IF Has(data, "cooldown_seconds") /\ data.cooldown_seconds # 0
    THEN data.cooldown_seconds
    ELSE DefaultCooldown

OnAnswerFeedback(data) ==
    /\ IF ~data.correct
       THEN /\ cooldown' = FeedbackCooldown(data)
            /\ CooldownEffect(FeedbackCooldown(data))
            /\ error' = IF Has(data, "explanation") THEN data.explanation ELSE undefined
       ELSE UNCHANGED <<cooldown, error, timerVars>>
    /\ submitting' = FALSE
    /\ UNCHANGED <<connected, matchReady, players, currentQuestion, timeLeft, answer,
                   selectedOption, roundResult, matchEnd, waitingForOpponent,
                   roundHistory, skipStatus, wsError>>

\* a final roster laid over the stored one
FinalRosterMerged(final_hp) ==
    [name \in DOMAIN final_hp \cup DOMAIN players |->
        IF name \in DOMAIN final_hp THEN [hp |-> final_hp[name]] ELSE players[name]]

\* Object.fromEntries(Object.entries(data.final_hp).map(([name, hp]) => [name, { hp }]))
FinalRoster(final_hp) == [name \in DOMAIN final_hp |-> [hp |-> final_hp[name]]]

OnMatchEnd(data) ==
    /\ matchEnd' = data
    /\ players' = IF Has(data, "final_hp") THEN FinalRoster(data.final_hp) ELSE players
    /\ UNCHANGED <<connected, matchReady, currentQuestion, timeLeft, answer,
                   selectedOption, submitting, roundResult, error, cooldown,
                   waitingForOpponent, roundHistory, skipStatus, wsError, timerVars>>

\* an error message that also releases the submitting flag
OnErrorResetting(data) ==
    /\ error' = data.message
    /\ submitting' = FALSE
    /\ UNCHANGED <<connected, matchReady, players, currentQuestion, timeLeft, answer,
                   selectedOption, roundResult, matchEnd, cooldown,
                   waitingForOpponent, roundHistory, skipStatus, wsError, timerVars>>

OnError(data) ==
    /\ error' = data.message
    /\ UNCHANGED <<connected, matchReady, players, currentQuestion, timeLeft, answer,
                   selectedOption, submitting, roundResult, matchEnd, cooldown,
                   waitingForOpponent, roundHistory, skipStatus, wsError, timerVars>>

-----------------------------------------------------------------------------
(* WebSocket objects.  Ready states: "connecting", "open", "closing"       *)
(* (close() called while open: the browser fires no message event any      *)
(* more, the close event follows), "aborted" (close() called while         *)
(* connecting), "failed" (the error event was fired, the close event       *)
(* follows), "closed".                                                     *)

Sockets == 1..Len(sockets)

\* a close() that does nothing
CloseCallIgnored(state) == state

\* WebSocket.close()
CloseCall(state) ==
    CASE state = "connecting" -> "aborted"
      [] state = "open" -> "closing"
      [] OTHER -> state

\* WebSocket.send(frame) on socket s: the frames that reach the wire.  In
\* state CONNECTING send throws InvalidStateError; once closing or closed the
\* frame is discarded silently.
Send(s, frame) ==
    IF s \in Sockets /\ sockets[s] = "open" THEN <<[sock |-> s, frame |-> frame]>> ELSE << >>

\* the value of `matchEnd` that ws.onclose reads: connectWebSocket is memoised
\* by useCallback([matchId, playerName]) (line 86), so every handler it installs
\* closes over the first render, where matchEnd is null
matchEndInOnClose == none

\* an open handler that leaves the notice up
SocketOpenKeepingNotice(s) ==
    /\ sockets[s] = "connecting"
    /\ sockets' = [sockets EXCEPT ![s] = "open"]
    /\ React(/\ connected' = TRUE
             /\ wsError' = null
             /\ UNCHANGED <<matchReady, players, currentQuestion, timeLeft, answer,
                            selectedOption, submitting, roundResult, matchEnd, cooldown,
                            waitingForOpponent, roundHistory, skipStatus, timerVars,
                            error>>)
    /\ lastOp' = "open"
    /\ lastData' = none
    /\ out' = << >>
    /\ UNCHANGED <<wsRef, mounted, noticeTimers, roundStarts, pendingSubmit, seen>>

\* ws.onopen (lines 58-63)
SocketOpen(s) ==
    /\ sockets[s] = "connecting"
    /\ sockets' = [sockets EXCEPT ![s] = "open"]
    /\ React(/\ connected' = TRUE
             /\ error' = null
             /\ wsError' = null
             /\ UNCHANGED <<matchReady, players, currentQuestion, timeLeft, answer,
                            selectedOption, submitting, roundResult, matchEnd, cooldown,
                            waitingForOpponent, roundHistory, skipStatus, timerVars>>)
    /\ lastOp' = "open"
    /\ lastData' = none
    /\ out' = << >>
    /\ UNCHANGED <<wsRef, mounted, noticeTimers, roundStarts, pendingSubmit, seen>>

\* an error handler that also marks the session disconnected
SocketErrorDisconnecting(s) ==
    /\ sockets[s] \in {"connecting", "open", "closing", "aborted"}
    /\ sockets' = [sockets EXCEPT ![s] = "failed"]
    /\ React(/\ error' = "Connection error"
             /\ wsError' = "WebSocket connection failed"
             /\ connected' = FALSE
             /\ UNCHANGED <<matchReady, players, currentQuestion, timeLeft,
                            answer, selectedOption, submitting, roundResult, matchEnd,
                            cooldown, waitingForOpponent, roundHistory, skipStatus,
                            timerVars>>)
    /\ lastOp' = "error_event"
    /\ lastData' = none
    /\ out' = << >>
    /\ UNCHANGED <<wsRef, mounted, noticeTimers, roundStarts, pendingSubmit, seen>>

\* ws.onerror (lines 71-75)
SocketError(s) ==
    /\ sockets[s] \in {"connecting", "open", "closing", "aborted"}
    /\ sockets' = [sockets EXCEPT ![s] = "failed"]
    /\ React(/\ error' = "Connection error"
             /\ wsError' = "WebSocket connection failed"
             /\ UNCHANGED <<connected, matchReady, players, currentQuestion, timeLeft,
                            answer, selectedOption, submitting, roundResult, matchEnd,
                            cooldown, waitingForOpponent, roundHistory, skipStatus,
                            timerVars>>)
    /\ lastOp' = "error_event"
    /\ lastData' = none
    /\ out' = << >>
    /\ UNCHANGED <<wsRef, mounted, noticeTimers, roundStarts, pendingSubmit, seen>>

\* a close handler that also releases the submitting flag
SocketCloseResetting(s) ==
    /\ sockets[s] \in {"open", "closing", "failed"}
    /\ sockets' = [sockets EXCEPT ![s] = "closed"]
    /\ React(/\ connected' = FALSE
             /\ wsError' = "Connection closed"
             /\ submitting' = FALSE
             /\ UNCHANGED <<matchReady, players, currentQuestion, timeLeft, answer,
                            selectedOption, roundResult, matchEnd, error, cooldown,
                            waitingForOpponent, roundHistory, skipStatus, timerVars>>)
    /\ lastOp' = "close"
    /\ lastData' = none
    /\ out' = << >>
    /\ UNCHANGED <<wsRef, mounted, noticeTimers, roundStarts, pendingSubmit, seen>>

\* a close handler that reconnects by itself
SocketCloseReconnecting(s) ==
    /\ sockets[s] \in {"open", "closing", "failed"}
    /\ sockets' = Append([sockets EXCEPT ![s] = "closed"], "connecting")
    /\ wsRef' = Len(sockets) + 1
    /\ React(/\ connected' = FALSE
             /\ wsError' = "Connection closed"
             /\ UNCHANGED <<matchReady, players, currentQuestion, timeLeft, answer,
                            selectedOption, submitting, roundResult, matchEnd, error,
                            cooldown, waitingForOpponent, roundHistory, skipStatus,
                            timerVars>>)
    /\ lastOp' = "close"
    /\ lastData' = none
    /\ out' = << >>
    /\ UNCHANGED <<mounted, noticeTimers, roundStarts, pendingSubmit, seen>>

\* ws.onclose (lines 77-83)
SocketClose(s) ==
    /\ sockets[s] \in {"open", "closing", "failed"}
    /\ sockets' = [sockets EXCEPT ![s] = "closed"]
    /\ React(/\ connected' = FALSE
             /\ wsError' = IF matchEndInOnClose = none THEN "Connection closed" ELSE wsError
             /\ UNCHANGED <<matchReady, players, currentQuestion, timeLeft, answer,
                            selectedOption, submitting, roundResult, matchEnd, error,
                            cooldown, waitingForOpponent, roundHistory, skipStatus,
                            timerVars>>)
    /\ lastOp' = "close"
    /\ lastData' = none
    /\ out' = << >>
    /\ UNCHANGED <<wsRef, mounted, noticeTimers, roundStarts, pendingSubmit, seen>>

\* connectWebSocket (lines 51-86): a new WebSocket, stored in wsRef
ConnectWebSocket(socks) ==
    /\ sockets' = Append(socks, "connecting")
    /\ wsRef' = Len(socks) + 1

\* the card with the Retry button is rendered while !connected (line 353), and
\* not on the match-end screen (line 244)
RetryShown == mounted /\ ~connected /\ matchEnd = none

\* a retry that leaves the old socket as it is
RetryUpToKeepingOld(n) ==
    /\ RetryShown
    /\ Len(sockets) < n
    /\ ConnectWebSocket(sockets)
    /\ wsError' = null
    /\ UNCHANGED <<connected, matchReady, players, currentQuestion, timeLeft, answer,
                   selectedOption, submitting, roundResult, matchEnd, error, cooldown,
                   waitingForOpponent, roundHistory, skipStatus, timerVars>>
    /\ lastOp' = "retry"
    /\ lastData' = none
    /\ out' = << >>
    /\ UNCHANGED <<mounted, noticeTimers, roundStarts, pendingSubmit, seen>>

\* click on Retry: retryConnect (lines 88-94), while fewer than n WebSocket
\* objects exist
RetryUpTo(n) ==
    /\ RetryShown
    /\ Len(sockets) < n
    /\ ConnectWebSocket(IF wsRef # 0
                        THEN [sockets EXCEPT ![wsRef] = CloseCall(sockets[wsRef])]
                        ELSE sockets)
    /\ wsError' = null
    /\ UNCHANGED <<connected, matchReady, players, currentQuestion, timeLeft, answer,
                   selectedOption, submitting, roundResult, matchEnd, error, cooldown,
                   waitingForOpponent, roundHistory, skipStatus, timerVars>>
    /\ lastOp' = "retry"
    /\ lastData' = none
    /\ out' = << >>
    /\ UNCHANGED <<mounted, noticeTimers, roundStarts, pendingSubmit, seen>>

Retry == RetryUpTo(MaxSockets)

\* unmount: the cleanups of the two effects (lines 98-100, 113-117).  The first
\* closes `ws`, the socket its own effect run created (socket 1), not wsRef.current.
Teardown ==
    /\ mounted
    /\ mounted' = FALSE
    /\ sockets' = [sockets EXCEPT ![1] = CloseCall(sockets[1])]
    /\ intervals' = ClearInterval(intervals, cooldownTimerRef)
    /\ lastOp' = "teardown"
    /\ lastData' = none
    /\ out' = << >>
    /\ UNCHANGED <<reactVars, wsRef, cooldownTimerRef, noticeTimers, roundStarts,
                   pendingSubmit, seen>>

-----------------------------------------------------------------------------
(* Inbound frames: ws.onmessage (lines 65-69) parses the frame and calls   *)
(* handleMessage.  The browser fires a message event only on a socket      *)
(* whose ready state is OPEN; the handler does not look at which socket it  *)
(* is.  Each action takes the set of payloads the server may send.         *)

Receiving(s) == mounted /\ sockets[s] = "open"

RecvConnected ==
    \E s \in Sockets :
        /\ Receiving(s)
        /\ OnConnected([player |-> playerName])
        /\ lastOp' = "connected"
        /\ lastData' = [player |-> playerName]
        /\ out' = << >>
        /\ UNCHANGED <<wsRef, mounted, sockets, noticeTimers, roundStarts,
                       pendingSubmit, seen>>

RecvMatchReady(payloads) ==
    \E s \in Sockets, data \in payloads :
        /\ Receiving(s)
        /\ OnMatchReady(data)
        /\ lastOp' = "match_ready"
        /\ lastData' = data
        /\ out' = << >>
        /\ UNCHANGED <<wsRef, mounted, sockets, noticeTimers, roundStarts,
                       pendingSubmit, seen>>

RecvRoundStart(payloads) ==
    \E s \in Sockets, data \in payloads :
        /\ Receiving(s)
        /\ roundStarts < MaxRounds
        /\ OnRoundStart(data)
        /\ roundStarts' = roundStarts + 1
        /\ seen' = [seen EXCEPT !.sent = FALSE, !.skips = 0]
        /\ lastOp' = "round_start"
        /\ lastData' = data
        /\ out' = << >>
        /\ UNCHANGED <<wsRef, mounted, sockets, noticeTimers, pendingSubmit>>

RecvRoundUpdate(payloads) ==
    \E s \in Sockets, data \in payloads :
        /\ Receiving(s)
        /\ OnRoundUpdate(data)
        /\ lastOp' = "round_update"
        /\ lastData' = data
        /\ out' = << >>
        /\ UNCHANGED <<wsRef, mounted, sockets, noticeTimers, roundStarts,
                       pendingSubmit, seen>>

RecvSkipUpdate(payloads) ==
    \E s \in Sockets, data \in payloads :
        /\ Receiving(s)
        /\ OnSkipUpdate(data)
        /\ lastOp' = "skip_update"
        /\ lastData' = data
        /\ out' = << >>
        /\ UNCHANGED <<wsRef, mounted, sockets, noticeTimers, roundStarts,
                       pendingSubmit, seen>>

RecvRoundResult(payloads) ==
    \E s \in Sockets, data \in payloads :
        /\ Receiving(s)
        /\ OnRoundResult(data)
        /\ pendingSubmit' = FALSE
        /\ lastOp' = "round_result"
        /\ lastData' = data
        /\ out' = << >>
        /\ UNCHANGED <<wsRef, mounted, sockets, noticeTimers, roundStarts, seen>>

\* answer_feedback also starts the 3-second timeout that clears the notice
\* (line 185); nothing ever cancels it.
RecvAnswerFeedback(payloads) ==
    \E s \in Sockets, data \in payloads :
        /\ Receiving(s)
        /\ OnAnswerFeedback(data)
        /\ IF ~data.correct
           THEN /\ BagCardinality(noticeTimers) < MaxNotices
                /\ noticeTimers' = noticeTimers (+) SetToBag({NoticeSeconds})
                /\ seen' = [values |-> <<FeedbackCooldown(data)>>, gaps |-> << >>,
                             since |-> 0, fresh |-> FeedbackCooldown(data) # cooldown,
                             sent |-> FALSE, skips |-> seen.skips,
                             largest |-> Max(seen.largest,
                                             IF Has(data, "cooldown_seconds")
                                             THEN data.cooldown_seconds
                                             ELSE DefaultCooldown)]
           ELSE /\ seen' = [seen EXCEPT !.sent = FALSE]
                /\ UNCHANGED noticeTimers
        /\ pendingSubmit' = FALSE
        /\ lastOp' = "answer_feedback"
        /\ lastData' = data
        /\ out' = << >>
        /\ UNCHANGED <<wsRef, mounted, sockets, roundStarts>>

RecvMatchEnd(payloads) ==
    \E s \in Sockets, data \in payloads :
        /\ Receiving(s)
        /\ OnMatchEnd(data)
        /\ lastOp' = "match_end"
        /\ lastData' = data
        /\ out' = << >>
        /\ UNCHANGED <<wsRef, mounted, sockets, noticeTimers, roundStarts,
                       pendingSubmit, seen>>

RecvError(payloads) ==
    \E s \in Sockets, data \in payloads :
        /\ Receiving(s)
        /\ OnError(data)
        /\ lastOp' = "error"
        /\ lastData' = data
        /\ out' = << >>
        /\ UNCHANGED <<wsRef, mounted, sockets, noticeTimers, roundStarts,
                       pendingSubmit, seen>>

\* A frame whose handling throws.  JSON.parse (line 66) throws on a frame that
\* is not JSON, before handleMessage is called.  A frame that parses but has no
\* `data` makes handleMessage throw at its first read of a field of data
\* (TypeError); the setState calls made before that read stay queued and are
\* applied.  The exception ends this call of ws.onmessage only.  A state set
\* to undefined is falsy like null and is read the same way everywhere, so it
\* is written none.
BrokenFrames == {"not json", "connected", "match_ready", "round_start", "round_update",
                 "skip_update", "round_result", "answer_feedback", "match_end", "error"}

RecvBroken ==
    \E s \in Sockets, type \in BrokenFrames :
        /\ Receiving(s)
        /\ CASE type = "match_ready" ->
                  /\ matchReady' = TRUE
                  /\ waitingForOpponent' = FALSE
                  /\ UNCHANGED <<connected, players, currentQuestion, timeLeft, answer,
                                 selectedOption, submitting, roundResult, matchEnd, error,
                                 cooldown, roundHistory, skipStatus, wsError>>
             [] type = "round_start" ->
                  /\ currentQuestion' = none
                  /\ UNCHANGED <<connected, matchReady, players, timeLeft, answer,
                                 selectedOption, submitting, roundResult, matchEnd, error,
                                 cooldown, waitingForOpponent, roundHistory, skipStatus,
                                 wsError>>
             [] type = "round_result" ->
                  /\ roundResult' = none
                  /\ currentQuestion' = none
                  /\ UNCHANGED <<connected, matchReady, players, timeLeft, answer,
                                 selectedOption, submitting, matchEnd, error, cooldown,
                                 waitingForOpponent, roundHistory, skipStatus, wsError>>
             [] type = "match_end" ->
                  /\ matchEnd' = none
                  /\ UNCHANGED <<connected, matchReady, players, currentQuestion, timeLeft,
                                 answer, selectedOption, submitting, roundResult, error,
                                 cooldown, waitingForOpponent, roundHistory, skipStatus,
                                 wsError>>
             [] OTHER -> UNCHANGED reactVars
        /\ lastOp' = "broken_frame"
        /\ lastData' = none
        /\ out' = << >>
        /\ UNCHANGED <<wsRef, timerVars, mounted, sockets, noticeTimers, roundStarts,
                       pendingSubmit, seen>>

\* the default case of the switch (lines 203-204)
RecvUnknown ==
    \E s \in Sockets :
        /\ Receiving(s)
        /\ UNCHANGED <<reactVars, timerVars>>
        /\ lastOp' = "unknown"
        /\ lastData' = none
        /\ out' = << >>
        /\ UNCHANGED <<wsRef, mounted, sockets, noticeTimers, roundStarts,
                       pendingSubmit, seen>>

-----------------------------------------------------------------------------
(* User commands. *)

\* the payload submitAnswer reads (lines 211-213)
AnswerPayload ==
    IF currentQuestion.question_type = "mcq" THEN selectedOption ELSE answer

SubmitFrame ==
    [type |-> "submit_answer",
     data |-> [question_id |-> currentQuestion.question_id, answer |-> AnswerPayload]]

\* the early return of submitAnswer (line 209); wsRef.current is null only
\* before the first connectWebSocket call
SubmitBlockedIgnoringCooldown == wsRef = 0 \/ submitting

\* an early return that does not look at the submitting flag
SubmitBlockedIgnoringSubmitting == wsRef = 0 \/ cooldown > 0

SubmitBlocked == wsRef = 0 \/ submitting \/ cooldown > 0

\* submitAnswer (lines 208-230).  With no active question the read of
\* currentQuestion.question_type throws before any state is set.
SubmitAnswer ==
    /\ mounted
    /\ IF SubmitBlocked \/ currentQuestion = none
       THEN /\ out' = << >>
            /\ UNCHANGED <<reactVars, pendingSubmit, seen>>
       ELSE IF ~TruthyStr(AnswerPayload)
       THEN /\ error' = "Please provide an answer"
            /\ out' = << >>
            /\ UNCHANGED <<connected, matchReady, players, currentQuestion, timeLeft,
                           answer, selectedOption, submitting, roundResult, matchEnd,
                           cooldown, waitingForOpponent, roundHistory, skipStatus,
                           wsError, pendingSubmit, seen>>
       ELSE /\ submitting' = TRUE
            /\ error' = null
            /\ out' = Send(wsRef, SubmitFrame)
            /\ pendingSubmit' = (pendingSubmit \/ Send(wsRef, SubmitFrame) # << >>)
            /\ seen' = [seen EXCEPT !.sent = @ \/ Send(wsRef, SubmitFrame) # << >>]
            /\ UNCHANGED <<connected, matchReady, players, currentQuestion, timeLeft,
                           answer, selectedOption, roundResult, matchEnd, cooldown,
                           waitingForOpponent, roundHistory, skipStatus, wsError>>
    /\ lastOp' = "submitAnswer"
    /\ lastData' = none
    /\ UNCHANGED <<wsRef, timerVars, mounted, sockets, noticeTimers, roundStarts>>

\* what the question card shows (lines 401, 244): the match-end screen replaces it
CardShown == mounted /\ matchEnd = none /\ currentQuestion # none

InputsDisabled == submitting \/ cooldown > 0

\* the option buttons are rendered for an mcq question that has options (line 417)
OptionsShown == currentQuestion.question_type = "mcq" /\ Has(currentQuestion, "options")

\* option.charAt(0)
CharAt0(str) == IF Len(str) = 0 THEN "" ELSE str[1]

\* click on an option button (lines 420-427)
SelectOption ==
    \E i \in 1..2 :
        /\ CardShown /\ OptionsShown /\ ~InputsDisabled
        /\ i \in 1..Len(currentQuestion.options)
        /\ selectedOption' = CharAt0(currentQuestion.options[i])
        /\ lastOp' = "select"
        /\ lastData' = none
        /\ out' = << >>
        /\ UNCHANGED <<connected, matchReady, players, currentQuestion, timeLeft, answer,
                       submitting, roundResult, matchEnd, error, cooldown,
                       waitingForOpponent, roundHistory, skipStatus, wsError>>
        /\ UNCHANGED <<wsRef, timerVars, mounted, sockets, noticeTimers, roundStarts,
                       pendingSubmit, seen>>

\* typing in the answer input or textarea (lines 431-448)
TypeAnswer ==
    \E text \in {"", "x"} :
        /\ CardShown /\ ~OptionsShown /\ ~InputsDisabled
        /\ answer' = text
        /\ lastOp' = "type"
        /\ lastData' = none
        /\ out' = << >>
        /\ UNCHANGED <<connected, matchReady, players, currentQuestion, timeLeft,
                       selectedOption, submitting, roundResult, matchEnd, error, cooldown,
                       waitingForOpponent, roundHistory, skipStatus, wsError>>
        /\ UNCHANGED <<wsRef, timerVars, mounted, sockets, noticeTimers, roundStarts,
                       pendingSubmit, seen>>

SkipFrame == [type |-> "skip_round"]

\* disabled={submitting || skipStatus[playerName]} (line 473)
SkipDisabled == submitting \/ playerName \in skipStatus

\* click on the skip button (lines 470-477): nothing when it is disabled
SkipRound ==
    /\ CardShown
    /\ out' = IF SkipDisabled \/ wsRef = 0
              THEN << >>
              ELSE Send(wsRef, SkipFrame)
    /\ seen' = [seen EXCEPT !.skips = IF @ + Len(out') < MaxSkips
                                      THEN @ + Len(out') ELSE MaxSkips]
    /\ lastOp' = "skip"
    /\ lastData' = none
    /\ UNCHANGED <<reactVars, wsRef, timerVars, mounted, sockets, noticeTimers,
                   roundStarts, pendingSubmit>>

\* click on the result overlay or its Continue button (lines 483, 538)
DismissResult ==
    /\ mounted /\ matchEnd = none /\ roundResult # none
    /\ roundResult' = none
    /\ lastOp' = "dismiss"
    /\ lastData' = none
    /\ out' = << >>
    /\ UNCHANGED <<connected, matchReady, players, currentQuestion, timeLeft, answer,
                   selectedOption, submitting, matchEnd, error, cooldown,
                   waitingForOpponent, roundHistory, skipStatus, wsError>>
    /\ UNCHANGED <<wsRef, timerVars, mounted, sockets, noticeTimers, roundStarts,
                   pendingSubmit, seen>>

-----------------------------------------------------------------------------
(* Time.  The clock advances in whole seconds; a timer whose time is up    *)
(* runs its callback before the clock advances again.                      *)

TimerDue ==
    \/ \E i \in DOMAIN intervals : intervals[i] = 0
    \/ BagIn(0, noticeTimers)

AdvanceTime ==
    /\ ~TimerDue
    /\ DOMAIN intervals # {} \/ noticeTimers # EmptyBag
    /\ intervals' = [i \in DOMAIN intervals |-> intervals[i] - 1]
    /\ noticeTimers' = [t \in {u - 1 : u \in DOMAIN noticeTimers} |-> noticeTimers[t + 1]]
    /\ seen' = [seen EXCEPT !.since = IF mounted /\ cooldown > 0 THEN @ + 1 ELSE @]
    /\ lastOp' = "time"
    /\ lastData' = none
    /\ out' = << >>
    /\ UNCHANGED <<reactVars, wsRef, cooldownTimerRef, mounted, sockets, roundStarts,
                   pendingSubmit>>

\* an updater that takes two off per tick
DecrementByTwo(c) == Max(0, c - 2)

\* the updater of the interval callback (line 106): c => Math.max(0, c - 1)
Decrement(c) == Max(0, c - 1)

\* the interval callback (line 106): setCooldown(c => Math.max(0, c - 1)); the
\* effect replaces the interval when the value changed, else it runs on
CooldownTick ==
    \E i \in DOMAIN intervals :
        /\ intervals[i] = 0
        /\ IF mounted /\ Decrement(cooldown) # cooldown
           THEN /\ cooldown' = Decrement(cooldown)
                /\ CooldownEffect(Decrement(cooldown))
                /\ seen' = [values |-> Append(seen.values, Decrement(cooldown)),
                             gaps |-> Append(seen.gaps, seen.since),
                             since |-> 0, fresh |-> seen.fresh, sent |-> seen.sent,
                             skips |-> seen.skips, largest |-> seen.largest]
           ELSE /\ intervals' = [intervals EXCEPT ![i] = IntervalSeconds]
                /\ UNCHANGED <<cooldown, cooldownTimerRef, seen>>
        /\ lastOp' = "tick"
        /\ lastData' = none
        /\ out' = << >>
        /\ UNCHANGED <<connected, matchReady, players, currentQuestion, timeLeft, answer,
                       selectedOption, submitting, roundResult, matchEnd, error,
                       waitingForOpponent, roundHistory, skipStatus, wsError>>
        /\ UNCHANGED <<wsRef, mounted, sockets, noticeTimers, roundStarts, pendingSubmit>>

\* the timeout callback (line 185): setError(null)
NoticeTimeout ==
    /\ BagIn(0, noticeTimers)
    /\ noticeTimers' = noticeTimers (-) SetToBag({0})
    /\ React(/\ error' = null
             /\ UNCHANGED <<connected, matchReady, players, currentQuestion, timeLeft,
                            answer, selectedOption, submitting, roundResult, matchEnd,
                            cooldown, waitingForOpponent, roundHistory, skipStatus,
                            wsError, timerVars>>)
    /\ lastOp' = "notice_timeout"
    /\ lastData' = none
    /\ out' = << >>
    /\ UNCHANGED <<wsRef, mounted, sockets, roundStarts, pendingSubmit, seen>>

\* After the unmount a socket that was not closed still delivers frames to
\* handleMessage; its setState calls are dropped, its setTimeout is not.
RecvAfterUnmount ==
    \E s \in Sockets :
        /\ ~mounted
        /\ sockets[s] = "open"
        /\ BagCardinality(noticeTimers) < MaxNotices
        /\ noticeTimers' = noticeTimers (+) SetToBag({NoticeSeconds})
        /\ lastOp' = "answer_feedback"
        /\ lastData' = none
        /\ out' = << >>
        /\ UNCHANGED <<reactVars, wsRef, timerVars, mounted, sockets, roundStarts,
                       pendingSubmit, seen>>

-----------------------------------------------------------------------------
(* The session after the first render and its effects: the state hooks at  *)
(* their initial values (lines 31-49), one WebSocket connecting.           *)

Init ==
    /\ connected = FALSE
    /\ matchReady = FALSE
    /\ players = << >>
    /\ currentQuestion = none
    /\ timeLeft = 0
    /\ answer = ""
    /\ selectedOption = null
    /\ submitting = FALSE
    /\ roundResult = none
    /\ matchEnd = none
    /\ error = null
    /\ cooldown = 0
    /\ waitingForOpponent = TRUE
    /\ roundHistory = << >>
    /\ skipStatus = {}
    /\ wsError = null
    /\ wsRef = 1
    /\ cooldownTimerRef = 0
    /\ mounted = TRUE
    /\ sockets = <<"connecting">>
    /\ intervals = << >>
    /\ noticeTimers = EmptyBag
    /\ lastOp = "mount"
    /\ out = << >>
    /\ lastData = none
    /\ roundStarts = 0
    /\ pendingSubmit = FALSE
    /\ seen = [values |-> << >>, gaps |-> << >>, since |-> 0, fresh |-> TRUE,
               sent |-> FALSE, skips |-> 0, largest |-> 0]

SocketEvent ==
    \E s \in Sockets : SocketOpen(s) \/ SocketError(s) \/ SocketClose(s)

Next ==
    \/ SocketEvent
    \/ Retry
    \/ Teardown
    \/ RecvConnected
    \/ RecvMatchReady(MatchReadys)
    \/ RecvRoundStart(RoundStarts)
    \/ RecvRoundUpdate(RoundUpdates)
    \/ RecvSkipUpdate(SkipUpdates)
    \/ RecvRoundResult(RoundResults)
    \/ RecvAnswerFeedback(AnswerFeedbacks)
    \/ RecvMatchEnd(MatchEnds)
    \/ RecvError(ErrorMessages)
    \/ RecvUnknown
    \/ RecvBroken
    \/ RecvAfterUnmount
    \/ SubmitAnswer
    \/ SelectOption
    \/ TypeAnswer
    \/ SkipRound
    \/ DismissResult
    \/ AdvanceTime
    \/ CooldownTick
    \/ NoticeTimeout

Spec == Init /\ [][Next]_vars

-----------------------------------------------------------------------------
(* Scopes.  Spec is the whole program with every payload; its state space  *)
(* is the product of the independent parts of the session (connection,     *)
(* roster, rounds, cooldown, notices).  Each scope below is Spec with the  *)
(* environment restricted to the events and payloads of one part, and is   *)
(* explored exhaustively.                                                  *)

FeedbackRight == [correct |-> TRUE]
FeedbackWrong == [correct |-> FALSE, cooldown_seconds |-> 1, explanation |-> "wrong"]

Timers == AdvanceTime \/ CooldownTick \/ NoticeTimeout

\* answer submission: both question types, the inputs, feedback, reconnects
NextSubmit ==
    \/ SocketEvent
    \/ Retry
    \/ RecvRoundStart(RoundStarts)
    \/ RecvRoundResult({ResultBare})
    \/ RecvAnswerFeedback({FeedbackRight, FeedbackWrong})
    \/ SubmitAnswer
    \/ SelectOption
    \/ TypeAnswer
    \/ Timers

SpecSubmit == Init /\ [][NextSubmit]_vars

\* the round history: both questions, both results, the end of the match,
\* with submissions, feedback, timers and reconnects in between
NextHistory ==
    \/ SocketEvent
    \/ Retry
    \/ RecvRoundStart(RoundStarts)
    \/ RecvRoundResult(RoundResults)
    \/ RecvMatchEnd({[winner |-> opponentName]})
    \/ RecvAnswerFeedback({FeedbackWrong})
    \/ SubmitAnswer
    \/ SelectOption
    \/ TypeAnswer
    \/ Timers

SpecHistory == Init /\ [][NextHistory]_vars

\* the cooldown: every feedback the server may send, one question, its
\* resolution, submissions and reconnects
NextCooldown ==
    \/ SocketEvent
    \/ Retry
    \/ RecvRoundStart({QuestionShort})
    \/ RecvRoundResult({ResultBare})
    \/ RecvAnswerFeedback(AnswerFeedbacks)
    \/ SubmitAnswer
    \/ TypeAnswer
    \/ Timers

SpecCooldown == Init /\ [][NextCooldown]_vars

\* the same with time passing: the browser runs a timer callback that is due,
\* and the clock does not stop while a timer is pending
SpecCooldownFair ==
    SpecCooldown /\ WF_vars(AdvanceTime) /\ WF_vars(CooldownTick) /\ WF_vars(NoticeTimeout)

\* the cooldown interval over the life of the component: every feedback, the
\* ticks, reconnects and the unmount
NextInterval ==
    \/ SocketEvent
    \/ Retry
    \/ Teardown
    \/ RecvRoundStart({QuestionShort})
    \/ RecvAnswerFeedback(AnswerFeedbacks)
    \/ RecvAfterUnmount
    \/ SubmitAnswer
    \/ TypeAnswer
    \/ Timers

SpecInterval == Init /\ [][NextInterval]_vars

\* the rounds of a match: every round message, broken frames, and the commands
\* of the question card and the result overlay
NextRound ==
    \/ SocketEvent
    \/ RecvMatchReady(MatchReadys)
    \/ RecvRoundStart(RoundStarts)
    \/ RecvRoundUpdate(RoundUpdates)
    \/ RecvSkipUpdate(SkipUpdates)
    \/ RecvRoundResult(RoundResults)
    \/ RecvBroken
    \/ SubmitAnswer
    \/ SelectOption
    \/ TypeAnswer
    \/ SkipRound
    \/ DismissResult

SpecRound == Init /\ [][NextRound]_vars

\* a round against the clock: the server's countdown and skip votes next to
\* the local timers, feedback and commands
NextClock ==
    \/ SocketEvent
    \/ RecvRoundStart(RoundStarts)
    \/ RecvRoundUpdate(RoundUpdates)
    \/ RecvSkipUpdate(SkipUpdates)
    \/ RecvRoundResult({ResultBare})
    \/ RecvAnswerFeedback({FeedbackWrong})
    \/ SubmitAnswer
    \/ SelectOption
    \/ TypeAnswer
    \/ SkipRound
    \/ Timers

SpecClock == Init /\ [][NextClock]_vars

\* the roster: the messages that carry one, over reconnects
NextRoster ==
    \/ SocketEvent
    \/ Retry
    \/ RecvMatchReady(MatchReadys)
    \/ RecvRoundStart({QuestionShort})
    \/ RecvRoundResult(RoundResults)
    \/ RecvMatchEnd(MatchEnds)
    \/ DismissResult

SpecRoster == Init /\ [][NextRoster]_vars

\* the connection: its events, repeated reconnects, the messages that carry no
\* match state, and one question being answered
NextSession ==
    \/ SocketEvent
    \/ RetryUpTo(1 + MaxReconnects)
    \/ RecvConnected
    \/ RecvUnknown
    \/ RecvError(ErrorMessages)
    \/ RecvRoundUpdate(RoundUpdates)
    \/ RecvRoundStart({QuestionShort})
    \/ TypeAnswer
    \/ SubmitAnswer

SpecSession == Init /\ [][NextSession]_vars

\* a round interrupted by connection events: one question with its countdown,
\* skip votes, feedback and result, over reconnects
NextReconnect ==
    \/ SocketEvent
    \/ Retry
    \/ RecvMatchReady(MatchReadys)
    \/ RecvRoundStart({QuestionShort})
    \/ RecvRoundUpdate({[seconds_left |-> 10]})
    \/ RecvSkipUpdate({[skipped_by |-> <<opponentName>>]})
    \/ RecvRoundResult({ResultFull})
    \/ RecvAnswerFeedback({FeedbackWrong})
    \/ SubmitAnswer
    \/ TypeAnswer
    \/ Timers

SpecReconnect == Init /\ [][NextReconnect]_vars

-----------------------------------------------------------------------------
(* Claims. *)

PayloadEmpty == currentQuestion # none /\ ~TruthyStr(AnswerPayload)
PayloadReady == currentQuestion # none /\ TruthyStr(AnswerPayload)

\* C1: a call of submitAnswer made while submitting is true, or cooldown > 0, or
\* the answer payload is empty puts no frame on the wire.
C1_NoFrameWhenGuarded ==
    [][(lastOp' = "submitAnswer" /\ (submitting \/ cooldown > 0 \/ PayloadEmpty))
         => out' = << >>]_vars

\* C1 witness: submitAnswer was called on an open connection with an answer
\* ready during a cooldown, and sent nothing.
C1_Witness ==
    /\ lastOp = "submitAnswer" /\ out = << >>
    /\ cooldown > 0 /\ PayloadReady /\ sockets[wsRef] = "open"

\* C2: submitAnswer called while the connection is not open (connecting, closed
\* or errored) sends no frame and leaves the submitting flag as it was.  (The
\* claim asks the same of every other state variable.)
C2_NoOpUnlessOpen ==
    [][(lastOp' = "submitAnswer" /\ sockets[wsRef] # "open")
         => (out' = << >> /\ submitting' = submitting)]_vars

\* C3: submitting is true only between a submit_answer frame and the next
\* answer_feedback or round_result; it is false right after a round_result.
C3_SubmittingOnlyWhilePending ==
    /\ submitting => pendingSubmit
    /\ lastOp = "round_result" => ~submitting


LastEntry(history) == history[Len(history)]

\* C4: the length of the round history equals the number of round_start
\* messages processed so far.
C4_HistoryCountsRoundStarts == Len(roundHistory) = roundStarts

\* C4 witness: two rounds were started, with a reconnect on the way.
C4_Witness == roundStarts = 2 /\ Len(roundHistory) = 2 /\ Len(sockets) = 2

\* C5: when the round_result of the round in progress is processed, the last
\* history entry takes its solution and correct_answer and keeps the
\* question_id, question_text, question_type and options of the round_start.
C5_ResultAmendsLastEntry ==
    [][(currentQuestion # none /\ lastOp' = "round_result") =>
          LET entry == LastEntry(roundHistory')
          IN  /\ Len(roundHistory') = Len(roundHistory)
              /\ entry.solution = roundResult'.solution
              /\ entry.correct_answer = roundResult'.correct_answer
              /\ entry.solution # "" /\ entry.correct_answer # ""
              /\ entry.question_id = currentQuestion.question_id
              /\ entry.question_text = currentQuestion.question_text
              /\ entry.question_type = currentQuestion.question_type
              /\ Has(entry, "options") = Has(currentQuestion, "options")
              /\ Has(entry, "options") => entry.options = currentQuestion.options]_vars

\* C5 witness: the second round, an mcq question, has just been resolved.
C5_Witness ==
    /\ lastOp = "round_result" /\ Len(roundHistory) = 2
    /\ LastEntry(roundHistory).question_text = QuestionMcq.question_text
    /\ LastEntry(roundHistory).options = QuestionMcq.options
    /\ LastEntry(roundHistory).solution = roundResult.solution

\* C6: a round_result that arrives while no round is in progress leaves the
\* round history unchanged.
C6_LateResultLeavesHistory ==
    [][(currentQuestion = none /\ lastOp' = "round_result")
         => roundHistory' = roundHistory]_vars

\* C7: the round history is append-only: it never shrinks, round_start adds
\* exactly one entry at the end and keeps the others, nothing but round_start
\* changes its length, nothing but round_start and round_result changes it at
\* all, and no entry other than the last is ever modified.
C7_AppendOnly ==
    [][/\ Len(roundHistory') >= Len(roundHistory)
       /\ \A i \in 1..(Len(roundHistory) - 1) : roundHistory'[i] = roundHistory[i]
       /\ lastOp' = "round_start" =>
              /\ Len(roundHistory') = Len(roundHistory) + 1
              /\ SubSeq(roundHistory', 1, Len(roundHistory)) = roundHistory
       /\ lastOp' # "round_start" => Len(roundHistory') = Len(roundHistory)
       /\ lastOp' \notin {"round_start", "round_result"} => roundHistory' = roundHistory
      ]_vars

\* C7 witness: two rounds, each resolved with a different result.
C7_Witness ==
    /\ lastOp = "round_result" /\ Len(roundHistory) = 2
    /\ Has(roundHistory[1], "solution") /\ Has(roundHistory[2], "solution")
    /\ roundHistory[1].solution # roundHistory[2].solution

\* C8: once match_end has been processed, nothing changes the round history.
C8_ReadOnlyAfterMatchEnd ==
    [][matchEnd # none => roundHistory' = roundHistory]_vars


\* the countdown started by answer_feedback{correct: false, cooldown_seconds: n}, n > 0
CountingDown == seen.values # << >> /\ seen.values[1] > 0

\* C9: after an incorrect answer_feedback with cooldown_seconds n > 0 and no
\* further feedback, the cooldown takes the values n, n-1, ..., 0, each step
\* made by a tick of the one-second interval: one second after the previous
\* value (for the first step: one second after the feedback when the feedback
\* changed the value, else on the next tick of the interval already running);
\* submitAnswer sends nothing while the value is above 0 and sends again once
\* it is 0.
C9_Countdown ==
    /\ [](CountingDown =>
            /\ \A i \in 1..Len(seen.values) : seen.values[i] = seen.values[1] - (i - 1)
            /\ seen.values[Len(seen.values)] = cooldown
            /\ cooldown >= 0
            /\ \A i \in 1..Len(seen.gaps) :
                    /\ seen.gaps[i] <= IntervalSeconds
                    /\ (i > 1 \/ seen.fresh) => seen.gaps[i] = IntervalSeconds
            /\ cooldown > 0 => seen.since < IntervalSeconds \/ ENABLED CooldownTick)
    /\ [][(CountingDown /\ cooldown' # cooldown) => lastOp' \in {"tick", "answer_feedback"}]_vars
    /\ [][(CountingDown /\ lastOp' = "submitAnswer") =>
            /\ cooldown > 0 => out' = << >>
            /\ (cooldown = 0 /\ ~submitting /\ PayloadReady /\ sockets[wsRef] = "open")
                 => out' = <<[sock |-> wsRef, frame |-> SubmitFrame]>>]_vars

\* C9 witness: a cooldown of 3 has run down to 0 and an answer was sent after it.
C9_Witness ==
    /\ seen.values = <<3, 2, 1, 0>> /\ seen.gaps = <<1, 1, 1>> /\ seen.fresh
    /\ lastOp = "submitAnswer" /\ out # << >>

\* C10: the cooldown is never negative.
C10_CooldownNonNegative == cooldown >= 0


\* C11: while the component is mounted the cooldown interval exists exactly
\* when cooldown > 0, and it is the one cooldownTimerRef holds; there is never
\* more than one, and none after the unmount; a step that takes cooldown from
\* zero to a positive value starts it, a step that brings cooldown to zero
\* leaves none, and every tick is delivered in a state with cooldown > 0.
C11_IntervalIffCooling ==
    /\ [](/\ Cardinality(DOMAIN intervals) <= 1
          /\ mounted => (DOMAIN intervals # {} <=> cooldown > 0)
          /\ (mounted /\ cooldown > 0) => DOMAIN intervals = {cooldownTimerRef}
          /\ ~mounted => DOMAIN intervals = {})
    /\ [][/\ (mounted /\ cooldown = 0 /\ cooldown' > 0)
               => intervals' = (cooldownTimerRef' :> IntervalSeconds)
          /\ (mounted /\ cooldown > 0 /\ cooldown' = 0) => DOMAIN intervals' = {}
          /\ lastOp' = "tick" => cooldown > 0]_vars

\* C11 witness: a cooldown of 3 was started from zero, ticked down to zero and
\* its interval is gone.
C11_Witness ==
    /\ lastOp = "tick" /\ cooldown = 0 /\ DOMAIN intervals = {}
    /\ seen.values = <<3, 2, 1, 0>> /\ seen.fresh


\* C12: every answer_feedback clears submitting; an incorrect one sets cooldown
\* to the cooldown_seconds it carries, whatever that value is, and to 2 only
\* when the field is omitted; a correct one leaves cooldown and the notice as
\* they were; cooldown is non-zero only after an incorrect feedback.
C12_FeedbackSetsCooldown ==
    /\ [][(lastOp' = "answer_feedback" /\ lastData' # none) =>
            /\ submitting' = FALSE
            /\ ~lastData'.correct =>
                   cooldown' = IF Has(lastData', "cooldown_seconds")
                               THEN lastData'.cooldown_seconds
                               ELSE DefaultCooldown
            /\ lastData'.correct => (cooldown' = cooldown /\ error' = error)]_vars
    /\ [](cooldown # 0 => seen.values # << >>)


\* the names listed by a skip_update payload
Names(data) ==
    IF Has(data, "skipped_by")
    THEN {data.skipped_by[i] : i \in DOMAIN data.skipped_by}
    ELSE {}

\* C13: after skip_update{skipped_by: L} the skip-vote set is exactly the names
\* in L, whatever it held before; an empty or omitted list gives the empty set.
C13_SkipUpdateReplaces ==
    [][lastOp' = "skip_update" =>
          /\ \A name \in {playerName, opponentName} :
                 name \in skipStatus' <=> name \in Names(lastData')
          /\ skipStatus' \subseteq {playerName, opponentName}
          /\ Names(lastData') = {} => skipStatus' = {}]_vars

\* C13 witness: a skip_update naming only the opponent was processed and the
\* set holds the opponent alone.
C13_Witness ==
    /\ lastOp = "skip_update" /\ Names(lastData) = {opponentName}
    /\ skipStatus = {opponentName}

\* C14: the displayed time is the time_limit of the round_start or the
\* seconds_left of the round_update processed last; no other step changes it.
C14_TimeLeftLastValueWins ==
    [][/\ lastOp' = "round_start" => timeLeft' = lastData'.time_limit
       /\ lastOp' = "round_update" => timeLeft' = lastData'.seconds_left
       /\ lastOp' \notin {"round_start", "round_update"} => timeLeft' = timeLeft]_vars

\* C14 witness: seconds have passed on the local clock during a cooldown, and
\* the display still shows the 10 of the last round_update, not the round's
\* time_limit.
C14_Witness ==
    /\ timeLeft = 10 /\ currentQuestion # none /\ currentQuestion.time_limit # 10
    /\ lastOp = "tick" /\ Len(seen.values) >= 2


\* C15: after match_end carrying final_hp the roster has exactly one entry per
\* key of final_hp, holding hp and nothing else, and no entry for a name that
\* final_hp does not list.
C15_FinalRosterExact ==
    [][(lastOp' = "match_end" /\ Has(lastData', "final_hp")) =>
          /\ DOMAIN players' = DOMAIN lastData'.final_hp
          /\ \A name \in DOMAIN players' :
                 /\ DOMAIN players'[name] = {"hp"}
                 /\ players'[name].hp = lastData'.final_hp[name]]_vars

\* C15 witness: the match was ready, so the roster held both players, and after
\* a match_end whose final_hp lists only the local player it holds that one.
C15_Witness ==
    /\ lastOp = "match_end" /\ matchReady /\ Has(lastData, "final_hp")
    /\ DOMAIN players = {playerName} /\ players[playerName] = [hp |-> 40]

\* C16: after round_start, from any state, the active question is the payload,
\* the countdown is its time_limit, the draft is empty, no option is selected,
\* submitting is false, the skip-vote set is empty and the round result is
\* cleared.
C16_RoundStartResets ==
    [][lastOp' = "round_start" =>
          /\ currentQuestion' = lastData'
          /\ timeLeft' = lastData'.time_limit
          /\ answer' = ""
          /\ selectedOption' = null
          /\ submitting' = FALSE
          /\ skipStatus' = {}
          /\ roundResult' = none]_vars

\* C16 witness: a second round_start was processed while the first round was
\* still unresolved.
C16_Witness ==
    /\ lastOp = "round_start" /\ roundStarts = 2 /\ Len(roundHistory) = 2
    /\ ~Has(roundHistory[1], "solution")
    /\ currentQuestion = QuestionMcq /\ timeLeft = 30 /\ ~submitting

\* C17: round_result clears the active question and stores the result; the
\* roster becomes the message's players when it carries them and stays as it
\* was when it does not.
C17_RoundResultRoster ==
    [][lastOp' = "round_result" =>
          /\ currentQuestion' = none
          /\ roundResult' = lastData'
          /\ Has(lastData', "players") => players' = lastData'.players
          /\ ~Has(lastData', "players") => players' = players]_vars

\* C17 witness: a result without a roster was processed after one with a
\* roster, and the roster of the earlier result is still stored.
C17_Witness ==
    /\ lastOp = "round_result" /\ lastData = ResultBare
    /\ players = RosterHit /\ currentQuestion = none /\ roundResult = ResultBare


\* C18: on an open connection the skip command sends a skip_round frame
\* whenever the local player is not in the skip-vote set, whatever submitting
\* and cooldown are, and sends nothing when the local player is in the set.
C18_SkipUnlessVoted ==
    [][lastOp' = "skip" =>
          /\ (playerName \notin skipStatus /\ sockets[wsRef] = "open")
                 => out' = <<[sock |-> wsRef, frame |-> SkipFrame]>>
          /\ playerName \in skipStatus => out' = << >>]_vars

\* C19: a frame whose parsing or handling fails changes nothing of the match
\* state, and the connection goes on delivering frames.
C19_BrokenFrameDropped ==
    [][lastOp' = "broken_frame" =>
          /\ UNCHANGED reactVars
          /\ sockets' = sockets]_vars

\* C20: the close of the connection marks the session not connected, and sets
\* the connection-lost notice exactly when no match_end was processed before.
C20_CloseAfterMatchEnd ==
    [][(lastOp' = "close" /\ mounted) =>
          /\ connected' = FALSE
          /\ matchEnd = none => wsError' = "Connection closed"
          /\ matchEnd # none => wsError' = wsError]_vars


\* the connections that are neither closed nor closing
Live == {s \in Sockets : sockets[s] \in {"connecting", "open"}}

\* C21: retry closes the connection held, clears the connection error and
\* opens a new connection, which becomes the one held; at most one connection
\* is live at any time; a retry that directly follows a retry leaves the React
\* state, the state of the connection held and the number of live connections
\* as the first left them.
C21_RetryIdempotent ==
    /\ [](Cardinality(Live) <= 1)
    /\ [][lastOp' = "retry" =>
            /\ wsError' = null
            /\ Len(sockets') = Len(sockets) + 1
            /\ wsRef' = Len(sockets')
            /\ sockets'[wsRef'] = "connecting"
            /\ sockets'[wsRef] \notin {"connecting", "open"}
            /\ \A s \in Sockets \ {wsRef} : sockets'[s] = sockets[s]
            /\ lastOp = "retry" =>
                   /\ reactVars' = reactVars
                   /\ sockets'[wsRef'] = sockets[wsRef]
                   /\ Cardinality({s \in DOMAIN sockets' :
                                       sockets'[s] \in {"connecting", "open"}})
                          = Cardinality(Live)]_vars

\* C21 witness: two retries in a row; the connection of the first was closed by
\* the second before it opened, and the third connection is the only live one.
C21_Witness ==
    /\ lastOp = "retry" /\ Len(sockets) = 3 /\ wsRef = 3
    /\ sockets[2] = "aborted" /\ sockets[3] = "connecting"
    /\ Live = {3} /\ wsError = null


\* C22: after the unmount no connection of the session is connecting or open,
\* no cooldown interval is running and no notice timeout is pending.
C22_TeardownReleasesAll ==
    ~mounted => /\ Live = {}
                /\ DOMAIN intervals = {}
                /\ noticeTimers = EmptyBag

\* C23: a connection is created only by a retry step; none is created by a
\* close event, an error event, a timer or an inbound message, and none is
\* ever removed.
C23_NoAutomaticReconnect ==
    [][/\ Len(sockets') >= Len(sockets)
       /\ Len(sockets') # Len(sockets) =>
              (lastOp' = "retry" /\ Len(sockets') = Len(sockets) + 1)
       /\ wsRef' # wsRef => lastOp' = "retry"]_vars

\* C23 witness: an incorrect answer_feedback was handled, its cooldown ticked
\* down and its timeout fired, then the connection failed and closed, all on
\* the one socket of the mount; the second exists through the retry alone.
C23_Witness ==
    /\ lastOp = "retry" /\ Len(sockets) = 2 /\ sockets[1] = "closed" /\ wsRef = 2
    /\ seen.values = <<1, 0>> /\ noticeTimers = EmptyBag
    /\ error = "Connection error"

\* everything of the session but the notice text
AllButNotice ==
    <<connected, matchReady, players, currentQuestion, timeLeft, answer, selectedOption,
      submitting, roundResult, matchEnd, cooldown, waitingForOpponent, roundHistory,
      skipStatus, wsError, timerVars, wsRef, sockets, noticeTimers>>

\* C24: a connected message and a message of an unrecognised type change
\* nothing of the session; an error message sets the notice to its text and
\* changes nothing else.
C24_InformationalMessages ==
    [][/\ lastOp' \in {"connected", "unknown"} => UNCHANGED <<AllButNotice, error>>
       /\ lastOp' = "error" => (UNCHANGED AllButNotice /\ error' = lastData'.message)]_vars

\* C24 witness: an error message was processed while an answer was awaiting
\* feedback on an open connection; the notice shows its text, the question is
\* still active and submitting is still true.
C24_Witness ==
    /\ lastOp = "error" /\ error = "server error"
    /\ currentQuestion = QuestionShort /\ submitting /\ seen.sent /\ connected

\* C25: submitAnswer called on an open connection with submitting false,
\* cooldown 0 and an empty payload sets the validation notice, sends nothing,
\* and leaves submitting, cooldown, the active question and the history alone.
C25_EmptyPayloadNotice ==
    [][(/\ lastOp' = "submitAnswer"
        /\ sockets[wsRef] = "open" /\ ~submitting /\ cooldown = 0
        /\ currentQuestion # none /\ AnswerPayload \in {"", null})
         => /\ error' = "Please provide an answer"
            /\ out' = << >>
            /\ UNCHANGED <<submitting, cooldown, currentQuestion, roundHistory>>]_vars

\* C25 witness: the validation notice is up after a submitAnswer on an open
\* connection with an active mcq question and no option selected.
C25_Witness ==
    /\ lastOp = "submitAnswer" /\ error = "Please provide an answer"
    /\ sockets[wsRef] = "open" /\ ~submitting /\ cooldown = 0
    /\ currentQuestion = QuestionMcq /\ selectedOption = null /\ out = << >>


\* C26: the explanation of an incorrect answer_feedback stays up, unless
\* another notice replaces it, until the timeout started by that feedback
\* fires three seconds later, and that timeout leaves no notice.
C26_NoticeLastsThreeSeconds ==
    /\ []((mounted /\ noticeTimers # EmptyBag) => error # null)
    /\ [][(mounted /\ lastOp' = "notice_timeout") => error' = null]_vars


\* C27: once a match_end was processed the match-end snapshot is never
\* cleared, no step makes a question active, and the roster stays as it is.
C27_MatchEndTerminal ==
    [][matchEnd # none =>
          /\ matchEnd' # none
          /\ currentQuestion = none => currentQuestion' = none
          /\ players' = players]_vars

\* everything of the React state but connected, error and wsError
AllButConnection ==
    <<matchReady, players, currentQuestion, timeLeft, answer, selectedOption,
      submitting, roundResult, matchEnd, cooldown, waitingForOpponent, roundHistory,
      skipStatus, timerVars>>

\* C28: when a connection opens the session is marked connected, the notice
\* and the connection error are cleared whatever they held, and nothing else
\* changes.
C28_OpenClearsErrors ==
    [][(mounted /\ lastOp' = "open") =>
          /\ connected' = TRUE
          /\ error' = null
          /\ wsError' = null
          /\ UNCHANGED <<AllButConnection, wsRef, noticeTimers>>]_vars

\* C28 witness: the second connection opened after the first had failed with
\* the notice "Connection error" set; both error fields are clear.
C28_Witness ==
    /\ lastOp = "open" /\ wsRef = 2 /\ sockets = <<"closed", "open">>
    /\ connected /\ error = null /\ wsError = null

\* C29: an error event sets the notice and the connection error and nothing
\* else: the connected flag stays as it was, close() is called on no socket and
\* no socket is created; after it the handling of frames is as before: a
\* round_update handled while a connection is past its error event sets the
\* countdown like any other.
C29_ErrorEventDoesNotClose ==
    [][/\ (mounted /\ lastOp' = "error_event") =>
              /\ error' = "Connection error"
              /\ wsError' = "WebSocket connection failed"
              /\ connected' = connected
              /\ UNCHANGED <<AllButConnection, wsRef, noticeTimers>>
              /\ Len(sockets') = Len(sockets)
              /\ \A s \in Sockets : sockets'[s] \in {sockets[s], "failed"}
       /\ (lastOp' = "round_update" /\ \E s \in Sockets : sockets[s] = "failed") =>
              timeLeft' = lastData'.seconds_left]_vars

\* C29 witness: the error event of the first connection, aborted by a retry,
\* came while the second was open: the session is still marked connected,
\* both error fields are set, no socket was closed by it, and a round_update
\* that arrived afterwards has been applied.
C29_Witness ==
    /\ lastOp = "round_update" /\ sockets = <<"failed", "open">> /\ wsRef = 2
    /\ timeLeft = 10
    /\ connected /\ error = "Connection error" /\ wsError = "WebSocket connection failed"

\* the submit_answer frames a step put on the wire
SubmitFramesOf(frames) ==
    {i \in DOMAIN frames : frames[i].frame.type = "submit_answer"}

\* C30: every submit_answer frame carries the question_id of the question
\* active when it is sent and a non-empty answer, and none is sent while an
\* earlier one has been followed by neither an answer_feedback nor a
\* round_start.
C30_OneSubmitPerFeedback ==
    [][\A i \in SubmitFramesOf(out') :
          /\ currentQuestion # none
          /\ out'[i].frame.data.question_id = currentQuestion.question_id
          /\ out'[i].frame.data.answer \notin {"", null, undefined}
          /\ ~seen.sent]_vars

\* C30 witness: a second submit_answer frame goes out in the second round,
\* after the first was answered by an incorrect answer_feedback.
C30_Witness ==
    /\ lastOp = "submitAnswer" /\ SubmitFramesOf(out) # {}
    /\ roundStarts = 2 /\ seen.values # << >> /\ seen.sent


\* C31: with time passing, a positive cooldown reaches 0 unless another
\* incorrect answer_feedback is processed first; while cooldown is 0 no
\* interval is running, and a tick only ever happens during a cooldown.
C31_CooldownRunsOut ==
    /\ (cooldown > 0) ~>
           (cooldown = 0 \/ (lastOp = "answer_feedback" /\ lastData # none
                                 /\ ~lastData.correct))
    /\ [](cooldown = 0 => DOMAIN intervals = {})
    /\ [][lastOp' = "tick" => cooldown > 0]_vars

\* C31 witness: a cooldown of 3 has been counted down to 0 by three ticks and
\* the interval is gone.
C31_Witness ==
    /\ lastOp = "tick" /\ seen.values = <<3, 2, 1, 0>>
    /\ cooldown = 0 /\ DOMAIN intervals = {}


\* C32: while the connection held in wsRef is open the session is marked
\* connected and does not show the connection-closed error, whatever happens
\* to the connections that a retry superseded.
C32_ConnectedFollowsNewest ==
    (mounted /\ wsRef \in Sockets /\ sockets[wsRef] = "open") =>
        (connected /\ wsError # "Connection closed")

\* the steps that handle an inbound frame
InboundOps ==
    {"connected", "match_ready", "round_start", "round_update", "skip_update",
     "round_result", "answer_feedback", "match_end", "error", "unknown", "broken_frame"}

\* C33: every connection that a retry superseded has had close() called on
\* it, so the only connection that can be open, and on which a frame is
\* handled, is the newest, the one held in wsRef.
C33_SupersededFramesIgnored ==
    /\ [](mounted => \A s \in Sockets : sockets[s] = "open" => s = wsRef)
    /\ [][(mounted /\ lastOp' \in InboundOps) =>
              (wsRef \in Sockets /\ sockets[wsRef] = "open")]_vars

\* C33 witness: the second retry superseded an open connection, which is
\* closing; the third connection has opened and a round_start was handled.
C33_Witness ==
    /\ lastOp = "round_start" /\ Len(sockets) = 3 /\ wsRef = 3
    /\ sockets[2] = "closing" /\ sockets[3] = "open"
    /\ currentQuestion = QuestionShort /\ Len(roundHistory) = 1

\* C34: no more than one skip_round frame is sent between one round_start and
\* the next.
C34_OneSkipPerRound == seen.skips <= 1


\* the steps of the connection lifecycle
LifecycleOps == {"open", "error_event", "close", "retry"}

\* C35: an open, error or close event and a retry leave the roster, the
\* active question, the countdown, the cooldown and its interval, the
\* submitting flag, the skip-vote set, the round result and the Round History
\* as they were.
C35_LifecycleKeepsMatchState ==
    [][lastOp' \in LifecycleOps =>
          UNCHANGED <<players, currentQuestion, timeLeft, cooldown, timerVars,
                      submitting, skipStatus, roundResult, roundHistory>>]_vars

\* C35 witness: the second connection opened in the middle of a round, with an
\* answer awaiting feedback, the opponent's skip vote, the roster and the
\* countdown as they were on the first connection.
C35_Witness ==
    /\ lastOp = "open" /\ wsRef = 2 /\ connected
    /\ currentQuestion = QuestionShort /\ submitting /\ timeLeft = 10
    /\ skipStatus = {opponentName} /\ players = RosterFull /\ Len(roundHistory) = 1


\* C36: the timeout started by an incorrect answer_feedback clears only an
\* explanation: when it fires, the notice is an explanation or is already
\* clear, never a notice of another kind set in the meantime.
C36_TimerClearsOwnNotice ==
    [][(mounted /\ lastOp' = "notice_timeout") => error \in {null, undefined, "wrong"}]_vars


\* C37: cooldown never exceeds the largest duration that an incorrect
\* answer_feedback processed so far has specified (2 for one that specified
\* none): a feedback arriving during a cooldown replaces the counter.
C37_CooldownBoundedByFeedback == cooldown <= seen.largest


\* C38: round_start and round_result leave the cooldown counter and its
\* interval as they are, and a submitAnswer made while cooldown > 0 sends
\* nothing and changes nothing, in whichever round it is made.
C38_CooldownCrossesRounds ==
    [][/\ lastOp' \in {"round_start", "round_result"} =>
              (cooldown' = cooldown /\ UNCHANGED timerVars)
       /\ (lastOp' = "submitAnswer" /\ cooldown > 0) =>
              (out' = << >> /\ UNCHANGED reactVars)]_vars

\* C38 witness: the second round_start was processed two seconds into a
\* cooldown of 3, after the first round was resolved; the counter is still at 2
\* and its interval is running.
C38_Witness ==
    /\ lastOp = "round_start" /\ roundStarts = 2 /\ currentQuestion = QuestionShort
    /\ Len(roundHistory) = 2 /\ Has(roundHistory[1], "solution")
    /\ cooldown = 2 /\ seen.values = <<3, 2>> /\ DOMAIN intervals # {}


\* C39: an active question and a round result are never both present.
C39_QuestionOrResult == ~(currentQuestion # none /\ roundResult # none)

\* C39 witness: a round_result arrived for the active mcq question: the result
\* is stored and the question is gone.
C39_Witness ==
    /\ lastOp = "round_result" /\ roundResult = ResultFull /\ currentQuestion = none
    /\ roundStarts = 1 /\ timeLeft = 30 /\ Has(roundHistory[1], "solution")


\* C40: round_start records the question's citation list, or the empty list
\* when it has none; a round_result that amends the last entry replaces the
\* entry's citations by its own list when it carries one and leaves them as
\* they were otherwise; every entry's citations are a list at all times.
C40_CitationsKept ==
    /\ [][/\ lastOp' = "round_start" =>
                 LastEntry(roundHistory').citation =
                     (IF Has(lastData', "citation") THEN lastData'.citation ELSE << >>)
          /\ (lastOp' = "round_result" /\ roundHistory # << >>) =>
                 LastEntry(roundHistory').citation =
                     (IF Has(lastData', "citation") THEN lastData'.citation
                      ELSE LastEntry(roundHistory).citation)]_vars
    /\ [](\A i \in DOMAIN roundHistory :
              Has(roundHistory[i], "citation")
                  /\ roundHistory[i].citation \in Seq({Cite1, Cite2}))

\* C40 witness: the round of the mcq question, recorded with one citation, was
\* resolved by a result that carries none, and the entry still has its citation.
C40_Witness ==
    /\ lastOp = "round_result" /\ lastData = ResultBare /\ roundHistory # << >>
    /\ LastEntry(roundHistory).question_id = QuestionMcq.question_id
    /\ LastEntry(roundHistory).solution = ResultBare.solution
    /\ LastEntry(roundHistory).citation = <<Cite1>>

====
